---- MODULE Spec2Model ----
(***************************************************************************)
(* Ukkonen suffix tree.  The ordered-map variant (src/suffixtree.cpp): the *)
(* constructor runs extend(0), ..., extend(size-1); each iteration of the  *)
(* remainder loop of extend is one step of the model.  After the           *)
(* constructor returns, search may be called any number of times, and      *)
(* printTree, getText and the destructor may run (Spec).  The flat-array   *)
(* variants (src/suffixtree_avx.cpp, src/suffixtree_neon.cpp): findChild   *)
(* on its own (FindSpec), and a flat tree built from the same input after  *)
(* the ordered-map tree (FlatSpec).                                        *)
(* Text indices are 0-based as in the source: T(k) is text[k].             *)
(***************************************************************************)
EXTENDS Integers, Sequences, FiniteSets, TLC

\* ---------------------------------------------------------------- bounds
MaxLen == 6          \* longest input string handed to the constructor
MaxPat == 2          \* longest free-form search pattern
MaxKeys == 65        \* longest keys array handed to findChild on its own
MaxFlatLen == 5      \* longest input string both kinds of tree are built from

\* ------------------------------------------------------------- constants
Dollar == 36         \* '$'
Alphabet == {Dollar, 97, 98}           \* '$', 'a', 'b'
PatAlphabet == Alphabet \cup {120}     \* and 'x', which no enumerated input contains

Root == 0            \* the first node created: id 0
Null == -1           \* nullptr

VARIABLES
    input,           \* the constructor argument t
    text,            \* SuffixTree::text
    size,            \* SuffixTree::size
    nodes,           \* id -> Node (start, end, suffixLink, children)
    heapInt,         \* id -> value of the split-end int owned by that node
    nodeCount,       \* SuffixTree::nodeCount
    rootEnd,         \* *rootEnd
    leafEnd,         \* SuffixTree::leafEnd
    activeNode, activeEdge, activeLength, remainder,
    lastNewNode,     \* local of extend
    i,               \* loop variable of the constructor; pos inside extend
    pc,              \* "build" | "loop" | "done" | "searched" | "printed" |
                     \* "gotText" | "destroyed"
    pattern,         \* argument of the search call that just returned
    found,           \* its result (the caller's local found)
    find,            \* one findChild call on a flat-array node: the node's
                     \* keys and children, the byte looked up, the results
    flat,            \* a flat-array tree (SuffixTreeAVX or SuffixTreeNeon) of
                     \* the same input: its members, by their names
    out,             \* what printTree wrote to std::cout, line by line
    got,             \* what getText returned
    freed,           \* the delete expressions the destructor ran, in order
    iterations,      \* how many iterations of the remainder loop have run so
                     \* far, by the branch they took
    linkWrites       \* id -> the assignments to the node's suffixLink so far,
                     \* each as the phase it was made in (Null: constructor)

vars == <<input, text, size, nodes, heapInt, nodeCount, rootEnd, leafEnd,
          activeNode, activeEdge, activeLength, remainder, lastNewNode,
          i, pc, pattern, found, find, flat, out, got, freed,
          iterations, linkWrites>>

\* What the steps of the ordered-map tree leave alone.
outputs == <<out, got, freed>>
history == <<iterations, linkWrites>>
others == <<find, flat, outputs>>

\* The ordered-map tree and its caller's locals.
mapTree == <<input, text, size, nodes, heapInt, nodeCount, rootEnd, leafEnd,
             activeNode, activeEdge, activeLength, remainder, lastNewNode,
             i, pc, pattern, found, history>>

\* ------------------------------------------------------------- utilities
SeqsUpTo(S, n) == UNION {[1..k -> S] : k \in 0..n}
Min(a, b) == IF a < b THEN a ELSE b
Last(s) == s[Len(s)]

\* text[k], 0-based
T(k) == text[k + 1]

\* ----------------------------------------------------------- constructor
\* Sentinel handling of the constructor.
EffectiveTextNonEmptyOnly(t) ==
    IF Len(t) > 0 /\ Last(t) # Dollar THEN Append(t, Dollar) ELSE t
EffectiveTextAlways(t) == Append(t, Dollar)
EffectiveText(t) ==
    IF Len(t) = 0 \/ Last(t) # Dollar THEN Append(t, Dollar) ELSE t

\* A fresh Node as newNode returns it: suffixLink = root, no children.
newNode(start, endRef) ==
    [start |-> start, end |-> endRef, suffixLink |-> Root,
     children |-> <<>>]

\* nodeCount++ inside newNode
nodeCountAfter(n) == n + 1

\* No findChild call is being looked at.
NoFind == [pc |-> "none"]

\* No flat-array tree has been constructed.
NoFlat == [pc |-> "none"]

\* Nothing printed, returned or deleted yet.
NoOutputs == out = <<>> /\ got = <<>> /\ freed = <<>>

\* The strings the constructor is tried on.
\* "xabxa", the tree test_examples.cpp prints
Xabxa == <<120, 97, 98, 120, 97>>
\* a string with bytes above 127, which a signed char holds as negatives
HighBytes == <<200, 97, 130, 97>>
Examples == {Xabxa, HighBytes}
Inputs == SeqsUpTo(Alphabet, MaxLen) \cup Examples

\* The state the constructor reaches before its phase loop.
TreeInit ==
    /\ text = EffectiveText(input)
    /\ size = Len(text)
    /\ nodeCount = nodeCountAfter(0)
    /\ leafEnd = -1
    /\ rootEnd = -1
    /\ nodes = (Root :> newNode(-1, "rootEnd"))
    /\ heapInt = <<>>
    /\ activeNode = Root
    /\ activeEdge = -1
    /\ activeLength = 0
    /\ remainder = 0
    /\ lastNewNode = Null
    /\ i = 0
    /\ pc = "build"
    /\ pattern = <<>>
    /\ found = FALSE
    /\ iterations = [insertion |-> 0, rule3 |-> 0, walkDown |-> 0]
    \* newNode assigns root's suffixLink, then the constructor does
    /\ linkWrites = (Root :> <<Null, Null>>)

Init ==
    /\ input \in Inputs
    /\ TreeInit
    /\ find = NoFind
    /\ flat = NoFlat
    /\ NoOutputs

\* ---------------------------------------------------------------- helpers
\* *(n->end)
Deref(n) ==
    CASE nodes[n].end = "leafEnd" -> leafEnd
      [] nodes[n].end = "rootEnd" -> rootEnd
      [] OTHER -> heapInt[n]

edgeLength(n) == IF n = Root THEN 0 ELSE Deref(n) - nodes[n].start + 1

\* activeNode->children.find(c) != end()
HasChild(n, c) == c \in DOMAIN nodes[n].children

\* ------------------------------------------------------------------ extend
\* leafEnd = pos
leafEndAtStale(pos) == leafEnd
leafEndAt(pos) == pos

\* Node *lastNewNode = nullptr: a local of extend, fresh in every phase
lastNewNodeMember == lastNewNode
lastNewNodeLocal == Null

\* Top of extend(pos): leafEnd = pos; remainder++; lastNewNode = nullptr.
ExtendBegin ==
    /\ pc = "build"
    /\ i < size
    /\ leafEnd' = leafEndAt(i)
    /\ remainder' = remainder + 1
    /\ lastNewNode' = lastNewNodeLocal
    /\ pc' = "loop"
    /\ UNCHANGED <<input, text, size, nodes, heapInt, nodeCount, rootEnd,
                   activeNode, activeEdge, activeLength, i, pattern, found>>
    /\ UNCHANGED <<others, history>>

\* activeEdge after "if (activeLength == 0) activeEdge = pos"
EdgeIndexKept == activeEdge
EdgeIndex == IF activeLength = 0 THEN i ELSE activeEdge
currentEdgeChar == T(EdgeIndex)

\* lastNewNode->suffixLink = target, when lastNewNode is set
linkLastNewNodeNever(ns, target) == ns
linkLastNewNode(ns, target) ==
    IF lastNewNode # Null
    THEN [ns EXCEPT ![lastNewNode].suffixLink = target]
    ELSE ns

\* The assignments counted: one for newNode of each node in fresh, one for
\* lastNewNode when linked is true and lastNewNode is set.
linkWritesAfter(fresh, linked) ==
    LET made == linkWrites @@ [n \in fresh |-> <<i>>]
    IN  IF linked /\ lastNewNode # Null
        THEN [made EXCEPT ![lastNewNode] = Append(@, i)]
        ELSE made

\* The end of the while condition and of the for loop of the constructor:
\* another iteration, the next phase, or the constructor returns.
LoopOrReturnRegardless(again) == pc' = "loop" /\ i' = i
LoopOrReturn(again) ==
    IF again
    THEN pc' = "loop" /\ i' = i
    ELSE i' = i + 1 /\ pc' = IF i + 1 < size THEN "build" ELSE "done"

\* remainder--, then the active-point update after an insertion made with
\* active edge index ae.
AfterInsertion(ae) ==
    /\ remainder' = remainder - 1
    /\ IF activeNode = Root /\ activeLength > 0
       THEN /\ activeLength' = activeLength - 1
            /\ activeEdge' = i - remainder' + 1
            /\ activeNode' = activeNode
       ELSE /\ activeLength' = activeLength
            /\ activeEdge' = ae
            /\ activeNode' = IF activeNode # Root
                              THEN nodes'[activeNode].suffixLink
                              ELSE activeNode
    /\ LoopOrReturn(remainder' > 0)

\* Rule 2, no edge: a new leaf under activeNode.
NewLeaf ==
    /\ pc = "loop"
    /\ ~HasChild(activeNode, currentEdgeChar)
    /\ LET leaf == nodeCount
           withLeaf == nodes @@ (leaf :> newNode(i, "leafEnd"))
           hung == [withLeaf EXCEPT ![activeNode].children =
                        (currentEdgeChar :> leaf) @@ @]
       IN  nodes' = linkLastNewNode(hung, activeNode)
    /\ nodeCount' = nodeCountAfter(nodeCount)
    /\ lastNewNode' = Null
    /\ AfterInsertion(EdgeIndex)
    /\ UNCHANGED <<input, text, size, heapInt, rootEnd, leafEnd, pattern, found>>
    /\ iterations' = [iterations EXCEPT !.insertion = @ + 1]
    /\ linkWrites' = linkWritesAfter({nodeCount}, TRUE)
    /\ UNCHANGED others

\* walkDown(next) returns true: hop to next and start the loop again.
walkDownTakenStrict(next) == activeLength > edgeLength(next)
walkDownTaken(next) == activeLength >= edgeLength(next)

WalkDown ==
    /\ pc = "loop"
    /\ HasChild(activeNode, currentEdgeChar)
    /\ LET next == nodes[activeNode].children[currentEdgeChar]
           len == edgeLength(next)
       IN  /\ walkDownTaken(next)
           /\ activeEdge' = EdgeIndex + len
           /\ activeLength' = activeLength - len
           /\ activeNode' = next
    /\ UNCHANGED <<input, text, size, nodes, heapInt, nodeCount, rootEnd,
                   leafEnd, remainder, lastNewNode, i, pc, pattern, found>>
    /\ iterations' = [iterations EXCEPT !.walkDown = @ + 1]
    /\ UNCHANGED linkWrites
    /\ UNCHANGED others

\* text[next->start + activeLength] == text[pos]
rule3MatchesNever(next) == FALSE
rule3Matches(next) == T(nodes[next].start + activeLength) = T(i)

\* Rule 3: the suffix is there implicitly; the phase ends.
Rule3 ==
    /\ pc = "loop"
    /\ HasChild(activeNode, currentEdgeChar)
    /\ LET next == nodes[activeNode].children[currentEdgeChar]
       IN  /\ ~walkDownTaken(next)
           /\ rule3Matches(next)
    /\ IF lastNewNode # Null /\ activeNode # Root
       THEN nodes' = linkLastNewNode(nodes, activeNode) /\ lastNewNode' = Null
       ELSE UNCHANGED <<nodes, lastNewNode>>
    /\ activeLength' = activeLength + 1
    /\ activeEdge' = EdgeIndex
    /\ LoopOrReturn(FALSE)
    /\ UNCHANGED <<input, text, size, heapInt, nodeCount, rootEnd, leafEnd,
                   activeNode, remainder, pattern, found>>
    /\ iterations' = [iterations EXCEPT !.rule3 = @ + 1]
    /\ linkWrites' = linkWritesAfter({}, activeNode # Root)
    /\ UNCHANGED others

\* new int(next->start + activeLength - 1)
splitEndValueOffByOne(next) == nodes[next].start + activeLength
splitEndValue(next) == nodes[next].start + activeLength - 1

\* The key under which the new leaf goes into split: text[pos]
splitLeafKeyOfNext(next) == T(nodes[next].start + activeLength)
splitLeafKey(next) == T(i)

\* next->start += activeLength
nextStartAfterSplitSame(next) == nodes[next].start
nextStartAfterSplit(next) == nodes[next].start + activeLength

\* Rule 2, split: a new internal node and a new leaf.
Split ==
    /\ pc = "loop"
    /\ HasChild(activeNode, currentEdgeChar)
    /\ LET next == nodes[activeNode].children[currentEdgeChar]
           split == nodeCount
           leaf == nodeCountAfter(nodeCount)
           nextStart == nextStartAfterSplit(next)
           n1 == nodes @@ (split :> newNode(nodes[next].start, "splitEnd"))
           n2 == [n1 EXCEPT ![activeNode].children =
                      (currentEdgeChar :> split) @@ @]
           n3 == [n2 EXCEPT ![next].start = nextStart]
           n4 == [n3 EXCEPT ![split].children = (T(nextStart) :> next) @@ @]
           n5 == n4 @@ (leaf :> newNode(i, "leafEnd"))
           n6 == [n5 EXCEPT ![split].children = (splitLeafKey(next) :> leaf) @@ @]
       IN  /\ ~walkDownTaken(next)
           /\ ~rule3Matches(next)
           /\ heapInt' = heapInt @@ (split :> splitEndValue(next))
           /\ nodes' = linkLastNewNode(n6, split)
           /\ nodeCount' = nodeCountAfter(nodeCountAfter(nodeCount))
           /\ lastNewNode' = split
    /\ AfterInsertion(EdgeIndex)
    /\ UNCHANGED <<input, text, size, rootEnd, leafEnd, pattern, found>>
    /\ iterations' = [iterations EXCEPT !.insertion = @ + 1]
    /\ linkWrites' = linkWritesAfter(
                         {nodeCount, nodeCountAfter(nodeCount)}, TRUE)
    /\ UNCHANGED others

\* ------------------------------------------------------------------ search
\* What searchRecursive answers when the pattern ends inside the edge
\* (matchLen + idx == pattern.length()).
endsInsideEdge(matchLen, idx, p) == matchLen + idx = Len(p)

\* The byte comparison of the edge loop: text[child->start + k] != pattern[idx + k]
edgeMismatchFirstOnly(child, p, idx, k) ==
    k = 0 /\ T(nodes[child].start + k) # p[idx + k + 1]
edgeMismatch(child, p, idx, k) == T(nodes[child].start + k) # p[idx + k + 1]

\* if (n->children.find(charCode) == n->children.end()) return false
noEdgeNever(n, c) == FALSE
noEdge(n, c) == ~HasChild(n, c)

\* Node *child = n->children[charCode]: operator[] of std::map, which puts a
\* null child under a key the map does not hold.  ns is the node table.
subscript(ns, n, c) ==
    IF c \in DOMAIN ns[n].children THEN ns
    ELSE [ns EXCEPT ![n].children = (c :> Null) @@ @]

\* searchRecursive(n, pattern, idx); pattern[idx] is p[idx + 1].  The answer
\* and the node table the call leaves behind.
RECURSIVE searchRecursive(_, _, _, _)
searchRecursive(ns, n, p, idx) ==
    IF idx >= Len(p) THEN [found |-> TRUE, nodes |-> ns]
    ELSE IF noEdge(n, p[idx + 1]) THEN [found |-> FALSE, nodes |-> ns]
    ELSE LET after == subscript(ns, n, p[idx + 1])
             child == after[n].children[p[idx + 1]]
         IN  \* a null child is what the subscript makes of a missing key;
             \* the find above keeps the call from getting here with one
             IF child = Null THEN [found |-> FALSE, nodes |-> after]
             ELSE LET edgeLen == edgeLength(child)
                      \* the loop runs k = 0 .. lim - 1 unless it returns false
                      lim == Min(edgeLen, Len(p) - idx)
                  IN  IF \E k \in 0..(lim - 1) : edgeMismatch(child, p, idx, k)
                      THEN [found |-> FALSE, nodes |-> after]
                      ELSE IF lim = edgeLen
                           THEN searchRecursive(after, child, p, idx + edgeLen)
                           ELSE [found |-> endsInsideEdge(lim, idx, p),
                                 nodes |-> after]

\* search(pattern): if (pattern.empty()) return true
searchEmptyFalse(p) ==
    IF Len(p) = 0 THEN [found |-> FALSE, nodes |-> nodes]
    ELSE searchRecursive(nodes, Root, p, 0)
search(p) ==
    IF Len(p) = 0 THEN [found |-> TRUE, nodes |-> nodes]
    ELSE searchRecursive(nodes, Root, p, 0)

\* Contiguous pieces of a sequence.
Substrings(s) ==
    {SubSeq(s, a, b) : a \in 1..(Len(s) + 1), b \in 0..Len(s)}
IsSubstring(w, s) == w \in Substrings(s)

\* The patterns tried: every short byte string, every substring of the text
\* and every substring followed by one more byte.
Patterns ==
    SeqsUpTo(PatAlphabet, MaxPat)
        \cup Substrings(text)
        \cup {Append(w, c) : w \in Substrings(text), c \in PatAlphabet}

\* One call tree.search(p) of a caller that holds the constructed tree.
Search ==
    /\ pc = "done"
    /\ \E p \in Patterns :
           /\ pattern' = p
           /\ found' = search(p).found
           /\ nodes' = search(p).nodes
    /\ pc' = "searched"
    /\ UNCHANGED <<input, text, size, heapInt, nodeCount, rootEnd,
                   leafEnd, activeNode, activeEdge, activeLength, remainder,
                   lastNewNode, i>>
    /\ UNCHANGED <<others, history>>

\* The caller is done with the result (the loop body of runTest ends and its
\* local found goes out of scope); the tree is ready for the next call.
SearchReturn ==
    /\ pc = "searched"
    /\ pc' = "done"
    /\ pattern' = <<>>
    /\ found' = FALSE
    /\ UNCHANGED <<input, text, size, nodes, heapInt, nodeCount, rootEnd,
                   leafEnd, activeNode, activeEdge, activeLength, remainder,
                   lastNewNode, i>>
    /\ UNCHANGED <<others, history>>

\* --------------------------------------------------------------- printTree
\* The value of byte b as a char, the key type of std::map<char, Node*>:
\* whether char is signed is up to the build.
asChar(signed, b) == IF signed /\ b >= 128 THEN b - 256 ELSE b

\* The keys in the order the map iterates them: ascending char.
RECURSIVE inOrderDescending(_, _)
inOrderDescending(signed, keys) ==
    IF keys = {} THEN <<>>
    ELSE LET k == CHOOSE a \in keys :
                      \A b \in keys : asChar(signed, b) <= asChar(signed, a)
         IN  <<k>> \o inOrderDescending(signed, keys \ {k})
RECURSIVE inOrder(_, _)
inOrder(signed, keys) ==
    IF keys = {} THEN <<>>
    ELSE LET k == CHOOSE a \in keys :
                      \A b \in keys : asChar(signed, a) <= asChar(signed, b)
         IN  <<k>> \o inOrder(signed, keys \ {k})

\* The line printRecursive writes for n: the indentation (two spaces, depth
\* times) and "Edge [start,end]: label (Node id)", or "Root (Node id)".
indentOneSpace(depth) == depth
indent(depth) == 2 * depth
printLine(n, depth) ==
    IF nodes[n].start # -1
    THEN [kind |-> "edge", spaces |-> indent(depth), start |-> nodes[n].start,
          end |-> Deref(n),
          label |-> [k \in 1..(Deref(n) - nodes[n].start + 1) |->
                        T(nodes[n].start + k - 1)],
          id |-> n]
    ELSE [kind |-> "root", spaces |-> 0, id |-> n]

\* printRecursive(n, depth): the line of n, then the children in map order.
RECURSIVE printRecursive(_, _, _)
RECURSIVE printChildren(_, _, _, _)
printChildren(signed, n, keys, depth) ==
    IF keys = <<>> THEN <<>>
    ELSE printRecursive(signed, nodes[n].children[Head(keys)], depth + 1)
             \o printChildren(signed, n, Tail(keys), depth)
printRecursive(signed, n, depth) ==
    <<printLine(n, depth)>>
        \o printChildren(signed, n, inOrder(signed, DOMAIN nodes[n].children),
                         depth)

printTree(signed) ==
    <<[kind |-> "header"]>> \o printRecursive(signed, Root, 0)
        \o <<[kind |-> "footer"]>>

\* tree.printTree() on the constructed tree, in a build with signed or with
\* unsigned char.
PrintTree ==
    /\ pc = "done"
    /\ \E signed \in BOOLEAN :
           out' = [charSigned |-> signed, lines |-> printTree(signed)]
    /\ pc' = "printed"
    /\ UNCHANGED <<input, text, size, nodes, heapInt, nodeCount, rootEnd,
                   leafEnd, activeNode, activeEdge, activeLength, remainder,
                   lastNewNode, i, pattern, found, find, flat, got, freed,
                   history>>

\* ----------------------------------------------------------------- getText
\* std::string getText() const { return text; } of the Python-bound class,
\* whose constructor handles the sentinel as EffectiveText does.
getText == text

\* tree.get_text() on the constructed tree.
GetText ==
    /\ pc = "done"
    /\ got' = getText
    /\ pc' = "gotText"
    /\ UNCHANGED <<input, text, size, nodes, heapInt, nodeCount, rootEnd,
                   leafEnd, activeNode, activeEdge, activeLength, remainder,
                   lastNewNode, i, pattern, found, find, flat, out, freed,
                   history>>

\* -------------------------------------------------------------- destructor
\* One delete expression: of a Node, or of the int a node's end points to
\* (ref says which int: a split end, the root end or the member leafEnd).
deleteNode(n) == [kind |-> "node", of |-> n, ref |-> "node"]
deleteEnd(n, endRef) == [kind |-> "int", of |-> n, ref |-> endRef]

\* if (n->end != &leafEnd && n->end != rootEnd) delete n->end
deletesEndUnlessLeaf(endRef) == endRef # "leafEnd"
deletesEnd(endRef) == endRef # "leafEnd" /\ endRef # "rootEnd"

\* freeSuffixTreeByPostOrder(n): the children in map order, then n's end
\* and n.
RECURSIVE freeSuffixTreeByPostOrder(_, _)
RECURSIVE freeChildren(_, _, _)
freeChildren(signed, n, keys) ==
    IF keys = <<>> THEN <<>>
    ELSE freeSuffixTreeByPostOrder(signed, nodes[n].children[Head(keys)])
             \o freeChildren(signed, n, Tail(keys))
freeSuffixTreeByPostOrder(signed, n) ==
    freeChildren(signed, n, inOrder(signed, DOMAIN nodes[n].children))
        \o (IF deletesEnd(nodes[n].end)
            THEN <<deleteEnd(n, nodes[n].end)>> ELSE <<>>)
        \o <<deleteNode(n)>>

\* ~SuffixTree(): the tree of an object that goes out of scope after every
\* object constructed later.
Destroy ==
    /\ pc = "done"
    /\ flat.pc \in {"none", "destroyed"}
    /\ \E signed \in BOOLEAN :
           freed' = freeSuffixTreeByPostOrder(signed, Root)
                        \o <<deleteEnd(Null, "rootEnd")>>
    /\ pc' = "destroyed"
    /\ UNCHANGED <<input, text, size, nodes, heapInt, nodeCount, rootEnd,
                   leafEnd, activeNode, activeEdge, activeLength, remainder,
                   lastNewNode, i, pattern, found, find, flat, out, got,
                   history>>

\* --------------------------------------------------- flat-array dispatch
\* A flat node's dispatcher is two parallel vectors, keys and children.
\* keys[k] and children[k], 0-based.
KeyAt(n, k) == n.keys[k + 1]
ChildAt(n, k) == n.children[k + 1]

NeonLanes == 16
AvxLanes == 32

\* The scalar loop from index k: for (; i < count; ++i) if (ptr[i] == target)
RECURSIVE scalarScan(_, _, _)
scalarScan(n, c, k) ==
    IF k < Len(n.keys)
    THEN IF KeyAt(n, k) = c THEN ChildAt(n, k) ELSE scalarScan(n, c, k + 1)
    ELSE Null

\* The lanes of the block at k whose key equals c: the set bits of the
\* movemask, the non-zero lanes of vceqq_u8.
blockMask(n, c, k, lanes) == {j \in 0..(lanes - 1) : KeyAt(n, k + j) = c}

\* __builtin_ctz(mask), mask != 0
highestSetBit(mask) == CHOOSE j \in mask : \A m \in mask : m <= j
countTrailingZeros(mask) == CHOOSE j \in mask : \A m \in mask : j <= m

\* The 32-byte loop of SuffixTreeAVX::findChild from index k: the child hit,
\* or no hit and the index the scalar loop starts from.
RECURSIVE avxLoop(_, _, _)
avxLoop(n, c, k) ==
    IF k <= Len(n.keys) - AvxLanes
    THEN LET mask == blockMask(n, c, k, AvxLanes)
         IN  IF mask # {}
             THEN [hit |-> TRUE, i |-> k,
                   child |-> ChildAt(n, k + countTrailingZeros(mask))]
             ELSE avxLoop(n, c, k + AvxLanes)
    ELSE [hit |-> FALSE, i |-> k, child |-> Null]

findChildAVX(n, c) ==
    IF Len(n.keys) = 0 THEN Null
    ELSE LET v == IF Len(n.keys) >= AvxLanes THEN avxLoop(n, c, 0)
                  ELSE [hit |-> FALSE, i |-> 0, child |-> Null]
         IN  IF v.hit THEN v.child ELSE scalarScan(n, c, v.i)

\* The scan of one 16-byte block: for (j = 0; j < 16; ++j)
neonBlockScanOffByOne(n, c, k, j) == ChildAt(n, k + j + 1)
neonBlockScan(n, c, k, j) == ChildAt(n, k + j)

\* The 16-byte loop of SuffixTreeNeon::findChild from index k.
RECURSIVE neonLoop(_, _, _)
neonLoop(n, c, k) ==
    IF k <= Len(n.keys) - NeonLanes
    THEN LET mask == blockMask(n, c, k, NeonLanes)
         IN  IF mask # {}
             THEN [hit |-> TRUE, i |-> k,
                   child |-> neonBlockScan(n, c, k,
                                 CHOOSE j \in mask : \A m \in mask : j <= m)]
             ELSE neonLoop(n, c, k + NeonLanes)
    ELSE [hit |-> FALSE, i |-> k, child |-> Null]

findChildNeon(n, c) ==
    IF Len(n.keys) = 0 THEN Null
    ELSE LET v == IF Len(n.keys) >= NeonLanes THEN neonLoop(n, c, 0)
                  ELSE [hit |-> FALSE, i |-> 0, child |-> Null]
         IN  IF v.hit THEN v.child ELSE scalarScan(n, c, v.i)

Next ==
    \/ ExtendBegin
    \/ NewLeaf
    \/ WalkDown
    \/ Rule3
    \/ Split
    \/ Search
    \/ SearchReturn
    \/ PrintTree
    \/ GetText
    \/ Destroy

Spec == Init /\ [][Next]_vars

\* The constructor alone, run to its end: it is one sequential call that is
\* never suspended, so a step of it that can be taken is taken.
BuildNext == ExtendBegin \/ NewLeaf \/ WalkDown \/ Rule3 \/ Split
BuildSpec == Init /\ [][BuildNext]_vars /\ WF_vars(BuildNext)

\* ------------------------------------------------ findChild on its own
\* Flat nodes of every size up to MaxKeys whose keys hold the byte 'a' at no,
\* one or two places (a, b; 0 is no place) and 'b', 'c', 'd' in turn at the
\* others; children[k] is k.  The bytes looked up are 'a', 'c' (at every
\* third place) and 'x' (at none).
ProbeBytes == {97, 99, 120}
FlatNodeWith(len, a, b) ==
    [keys |-> [k \in 1..len |->
                  IF k \in {a, b} THEN 97 ELSE 98 + (k % 3)],
     children |-> [k \in 1..len |-> k - 1]]
SecondHitGaps == {0, 1, NeonLanes, AvxLanes}
FlatNodes(maxLen) ==
    {FlatNodeWith(t[1], t[2], Min(t[2] + t[3], t[1])) :
        t \in {u \in (0..maxLen) \X (0..maxLen) \X SecondHitGaps : u[2] <= u[1]}}

FindInit ==
    /\ input = <<>>
    /\ TreeInit
    /\ find \in {[pc |-> "call", node |-> nd, c |-> b, result |-> Null] :
                    nd \in FlatNodes(MaxKeys), b \in ProbeBytes}
    /\ flat = NoFlat
    /\ NoOutputs

\* findChild(n, c) of SuffixTreeNeon
FindNeon ==
    /\ find.pc = "call"
    /\ find' = [find EXCEPT !.pc = "neon",
                            !.result = findChildNeon(find.node, find.c)]
    /\ UNCHANGED <<mapTree, flat, outputs>>

\* findChild(n, c) of SuffixTreeAVX
FindAVX ==
    /\ find.pc = "call"
    /\ find' = [find EXCEPT !.pc = "avx",
                            !.result = findChildAVX(find.node, find.c)]
    /\ UNCHANGED <<mapTree, flat, outputs>>

FindNext == FindNeon \/ FindAVX

FindSpec == FindInit /\ [][FindNext]_vars

\* ------------------------------------------------------ flat-array tree
\* SuffixTreeAVX and SuffixTreeNeon: the same builder over nodes that keep
\* their children in two parallel vectors.  f is the tree (the record flat).
FlatKinds == {"avx", "neon"}

\* (uint8_t)c
toByte(c) == c % 256

\* findChild(n, c) of the variant the tree is an instance of
findChild(f, n, c) ==
    IF f.kind = "avx" THEN findChildAVX(f.nodes[n], toByte(c))
    ELSE findChildNeon(f.nodes[n], toByte(c))

\* A fresh Node as newNode returns it: suffixLink = root, empty vectors.
newNodeFlat(start, endRef) ==
    [start |-> start, end |-> endRef, suffixLink |-> Root,
     keys |-> <<>>, children |-> <<>>]

\* Node::addChild
addChild(n, c, child) ==
    [n EXCEPT !.keys = Append(@, toByte(c)), !.children = Append(@, child)]

\* The constructor up to its phase loop.
FlatConstruct ==
    /\ pc = "done"
    /\ flat = NoFlat
    /\ \E kind \in FlatKinds :
           flat' = [kind |-> kind,
                    text |-> EffectiveText(input),
                    size |-> Len(EffectiveText(input)),
                    nodeCount |-> nodeCountAfter(0),
                    leafEnd |-> -1,
                    rootEnd |-> -1,
                    nodes |-> (Root :> newNodeFlat(-1, "rootEnd")),
                    heapInt |-> <<>>,
                    activeNode |-> Root,
                    activeEdge |-> -1,
                    activeLength |-> 0,
                    remainder |-> 0,
                    lastNewNode |-> Null,
                    i |-> 0,
                    pc |-> "build",
                    found |-> FALSE,
                    freed |-> <<>>]
    /\ UNCHANGED <<mapTree, find, outputs>>

\* text[k] and *(n->end) of the flat tree
TextFlat(f, k) == f.text[k + 1]
DerefFlat(f, n) ==
    CASE f.nodes[n].end = "leafEnd" -> f.leafEnd
      [] f.nodes[n].end = "rootEnd" -> f.rootEnd
      [] OTHER -> f.heapInt[n]

edgeLengthFlat(f, n) ==
    IF n = Root THEN 0 ELSE DerefFlat(f, n) - f.nodes[n].start + 1

\* Top of extend(pos).
ExtendBeginFlat ==
    /\ flat.pc = "build"
    /\ flat.i < flat.size
    /\ flat' = [flat EXCEPT !.leafEnd = flat.i,
                            !.remainder = @ + 1,
                            !.lastNewNode = Null,
                            !.pc = "loop"]
    /\ UNCHANGED <<mapTree, find, outputs>>

EdgeIndexFlat(f) == IF f.activeLength = 0 THEN f.i ELSE f.activeEdge
currentEdgeCharFlat(f) == TextFlat(f, EdgeIndexFlat(f))

\* Node* next = findChild(activeNode, currentEdgeChar)
nextFlat(f) == findChild(f, f.activeNode, currentEdgeCharFlat(f))

\* lastNewNode->suffixLink = target, when lastNewNode is set
linkLastNewNodeFlat(f, ns, target) ==
    IF f.lastNewNode # Null
    THEN [ns EXCEPT ![f.lastNewNode].suffixLink = target]
    ELSE ns

\* The while condition and the for loop of the constructor.
loopOrReturnFlat(f, again) ==
    IF again THEN [f EXCEPT !.pc = "loop"]
    ELSE [f EXCEPT !.i = @ + 1,
                   !.pc = IF f.i + 1 < f.size THEN "build" ELSE "done"]

\* remainder--, then the active-point update; f is the tree after the
\* insertion, made with active edge index ae.
afterInsertionFlat(f, ae) ==
    LET rem == f.remainder - 1
        shorten == f.activeNode = Root /\ f.activeLength > 0
    IN  loopOrReturnFlat(
            [f EXCEPT !.remainder = rem,
                      !.activeLength = IF shorten THEN @ - 1 ELSE @,
                      !.activeEdge = IF shorten THEN f.i - rem + 1 ELSE ae,
                      !.activeNode = IF ~shorten /\ @ # Root
                                     THEN f.nodes[@].suffixLink ELSE @],
            rem > 0)

\* Rule 2, no edge.
NewLeafFlat ==
    /\ flat.pc = "loop"
    /\ nextFlat(flat) = Null
    /\ LET leaf == flat.nodeCount
           withLeaf == flat.nodes @@ (leaf :> newNodeFlat(flat.i, "leafEnd"))
           hung == [withLeaf EXCEPT ![flat.activeNode] =
                        addChild(@, currentEdgeCharFlat(flat), leaf)]
       IN  flat' = afterInsertionFlat(
                       [flat EXCEPT !.nodes = linkLastNewNodeFlat(
                                                  flat, hung, flat.activeNode),
                                    !.nodeCount = nodeCountAfter(@),
                                    !.lastNewNode = Null],
                       EdgeIndexFlat(flat))
    /\ UNCHANGED <<mapTree, find, outputs>>

\* walkDown(next) returns true.
walkDownTakenFlat(f, next) == f.activeLength >= edgeLengthFlat(f, next)

WalkDownFlat ==
    /\ flat.pc = "loop"
    /\ nextFlat(flat) # Null
    /\ LET next == nextFlat(flat)
           len == edgeLengthFlat(flat, next)
       IN  /\ walkDownTakenFlat(flat, next)
           /\ flat' = [flat EXCEPT !.activeEdge = EdgeIndexFlat(flat) + len,
                                   !.activeLength = @ - len,
                                   !.activeNode = next]
    /\ UNCHANGED <<mapTree, find, outputs>>

\* text[next->start + activeLength] == text[pos]
rule3MatchesFlat(f, next) ==
    TextFlat(f, f.nodes[next].start + f.activeLength) = TextFlat(f, f.i)

\* Rule 3.
Rule3Flat ==
    /\ flat.pc = "loop"
    /\ nextFlat(flat) # Null
    /\ LET next == nextFlat(flat)
           link == flat.lastNewNode # Null /\ flat.activeNode # Root
       IN  /\ ~walkDownTakenFlat(flat, next)
           /\ rule3MatchesFlat(flat, next)
           /\ flat' = loopOrReturnFlat(
                          [flat EXCEPT
                              !.nodes = IF link
                                        THEN linkLastNewNodeFlat(
                                                 flat, @, flat.activeNode)
                                        ELSE @,
                              !.lastNewNode = IF link THEN Null ELSE @,
                              !.activeLength = @ + 1,
                              !.activeEdge = EdgeIndexFlat(flat)],
                          FALSE)
    /\ UNCHANGED <<mapTree, find, outputs>>

\* The scan that puts split in the place of next:
\* for (k...) if (keys[k] == (uint8_t)currentEdgeChar) { children[k] = split; break; }
replaceChildNowhere(n, c, split) == addChild(n, c, split)
replaceChild(n, c, split) ==
    LET hits == {k \in 1..Len(n.keys) : n.keys[k] = toByte(c)}
    IN  IF hits = {} THEN n
        ELSE [n EXCEPT !.children[CHOOSE k \in hits : \A m \in hits : k <= m]
                           = split]

\* Rule 2, split.
SplitFlat ==
    /\ flat.pc = "loop"
    /\ nextFlat(flat) # Null
    /\ LET next == nextFlat(flat)
           split == flat.nodeCount
           leaf == nodeCountAfter(flat.nodeCount)
           splitEnd == flat.nodes[next].start + flat.activeLength - 1
           nextStart == flat.nodes[next].start + flat.activeLength
           n1 == flat.nodes
                     @@ (split :> newNodeFlat(flat.nodes[next].start, "splitEnd"))
           n2 == [n1 EXCEPT ![flat.activeNode] =
                      replaceChild(@, currentEdgeCharFlat(flat), split)]
           n3 == [n2 EXCEPT ![next].start = nextStart]
           n4 == [n3 EXCEPT ![split] =
                      addChild(@, TextFlat(flat, nextStart), next)]
           n5 == n4 @@ (leaf :> newNodeFlat(flat.i, "leafEnd"))
           n6 == [n5 EXCEPT ![split] =
                      addChild(@, TextFlat(flat, flat.i), leaf)]
       IN  /\ ~walkDownTakenFlat(flat, next)
           /\ ~rule3MatchesFlat(flat, next)
           /\ flat' = afterInsertionFlat(
                          [flat EXCEPT
                              !.heapInt = @ @@ (split :> splitEnd),
                              !.nodes = linkLastNewNodeFlat(flat, n6, split),
                              !.nodeCount = nodeCountAfter(nodeCountAfter(@)),
                              !.lastNewNode = split],
                          EdgeIndexFlat(flat))
    /\ UNCHANGED <<mapTree, find, outputs>>

\* searchRecursive(n, pattern, idx) of the flat tree
RECURSIVE searchRecursiveFlat(_, _, _, _)
searchRecursiveFlat(f, n, p, idx) ==
    IF idx >= Len(p) THEN TRUE
    ELSE LET child == findChild(f, n, p[idx + 1])
         IN  IF child = Null THEN FALSE
             ELSE LET edgeLen == edgeLengthFlat(f, child)
                      lim == Min(edgeLen, Len(p) - idx)
                  IN  IF \E k \in 0..(lim - 1) :
                             TextFlat(f, f.nodes[child].start + k)
                                 # p[idx + k + 1]
                      THEN FALSE
                      ELSE IF lim = edgeLen
                           THEN searchRecursiveFlat(f, child, p, idx + edgeLen)
                           ELSE lim + idx = Len(p)

searchFlat(f, p) ==
    IF Len(p) = 0 THEN TRUE ELSE searchRecursiveFlat(f, Root, p, 0)

\* A caller that holds both trees asks both for the same pattern.
SearchBoth ==
    /\ pc = "done"
    /\ flat.pc = "done"
    /\ \E p \in Patterns :
           /\ pattern' = p
           /\ found' = search(p).found
           /\ nodes' = search(p).nodes
           /\ flat' = [flat EXCEPT !.found = searchFlat(flat, p),
                                   !.pc = "searched"]
    /\ pc' = "searched"
    /\ UNCHANGED <<input, text, size, heapInt, nodeCount, rootEnd,
                   leafEnd, activeNode, activeEdge, activeLength, remainder,
                   lastNewNode, i, find, outputs, history>>

\* The caller is done with both results.
SearchBothReturn ==
    /\ pc = "searched"
    /\ flat.pc = "searched"
    /\ pc' = "done"
    /\ pattern' = <<>>
    /\ found' = FALSE
    /\ flat' = [flat EXCEPT !.found = FALSE, !.pc = "done"]
    /\ UNCHANGED <<input, text, size, nodes, heapInt, nodeCount, rootEnd,
                   leafEnd, activeNode, activeEdge, activeLength, remainder,
                   lastNewNode, i, find, outputs, history>>

\* ------------------------------------------ destructor of the flat tree
\* freeSuffixTreeByPostOrder(n) of the flat tree: for (Node* child : n->children)
RECURSIVE freeSuffixTreeByPostOrderFlat(_, _)
RECURSIVE freeChildrenFlat(_, _)
freeChildrenFlat(f, children) ==
    IF children = <<>> THEN <<>>
    ELSE freeSuffixTreeByPostOrderFlat(f, Head(children))
             \o freeChildrenFlat(f, Tail(children))
freeSuffixTreeByPostOrderFlat(f, n) ==
    freeChildrenFlat(f, f.nodes[n].children)
        \o (IF f.nodes[n].end # "leafEnd" /\ f.nodes[n].end # "rootEnd"
            THEN <<deleteEnd(n, f.nodes[n].end)>> ELSE <<>>)
        \o <<deleteNode(n)>>

\* ~SuffixTreeAVX() / ~SuffixTreeNeon()
DestroyFlat ==
    /\ flat.pc = "done"
    /\ flat' = [flat EXCEPT
                   !.freed = freeSuffixTreeByPostOrderFlat(flat, Root)
                                 \o <<deleteEnd(Null, "rootEnd")>>,
                   !.pc = "destroyed"]
    /\ UNCHANGED <<mapTree, find, outputs>>

FlatNext ==
    \/ ExtendBegin
    \/ NewLeaf
    \/ WalkDown
    \/ Rule3
    \/ Split
    \/ FlatConstruct
    \/ ExtendBeginFlat
    \/ NewLeafFlat
    \/ WalkDownFlat
    \/ Rule3Flat
    \/ SplitFlat
    \/ SearchBoth
    \/ SearchBothReturn
    \/ DestroyFlat
    \/ Destroy

FlatInit ==
    /\ input \in SeqsUpTo(Alphabet, MaxFlatLen) \cup Examples
    /\ TreeInit
    /\ find = NoFind
    /\ flat = NoFlat
    /\ NoOutputs

\* Both trees of one input, built one after the other, then searched and
\* destroyed.
FlatSpec == FlatInit /\ [][FlatNext]_vars

\* ------------------------------------------------- vocabulary of the claims
\* No extend call is in progress: between two phases, or the constructor has
\* just returned (searches leave the tree as it is at "done").
AtPhaseBoundary == pc \in {"build", "done"}
Constructed == pc = "done"

\* The text processed so far at a phase boundary: T[0 .. i-1].
Processed == SubSeq(text, 1, i)

Children(n) == {nodes[n].children[c] : c \in DOMAIN nodes[n].children}
IsInternal(n) == n # Root /\ Children(n) # {}
IsLeaf(n) == n # Root /\ Children(n) = {}
Leaves == {n \in DOMAIN nodes : IsLeaf(n)}

\* The edge label T[n.start .. *n.end] of a node.
Label(n) == IF n = Root THEN <<>>
            ELSE SubSeq(text, nodes[n].start + 1, Deref(n) + 1)

Parent(n) == CHOOSE q \in DOMAIN nodes : n \in Children(q)

\* The string spelled from the root to n.
RECURSIVE NodePath(_)
NodePath(n) == IF n = Root THEN <<>> ELSE NodePath(Parent(n)) \o Label(n)

\* Every string that can be read downwards from n, stopping at a node or
\* inside an edge.
RECURSIVE ReadFrom(_)
ReadFrom(n) ==
    {<<>>} \cup UNION {
        {SubSeq(Label(c), 1, k) : k \in 1..Len(Label(c))}
            \cup {Label(c) \o w : w \in ReadFrom(c)} : c \in Children(n)}

Suffixes(s) == {SubSeq(s, a, Len(s)) : a \in 1..Len(s)}

\* '$' occurs in s only as its last byte, if at all.
DollarOnlyLast(s) == \A k \in 1..Len(s) : s[k] = Dollar => k = Len(s)

\* -------------------------------------------------------------------- C1
\* C1: search(w) returns true for every non-empty substring w (so for every
\* non-empty suffix) of the effective text.
C1_SubstringFound ==
    (pc = "searched" /\ Len(pattern) > 0 /\ IsSubstring(pattern, text))
        => found = TRUE

C1_Witness ==
    /\ pc = "searched" /\ found
    /\ Len(pattern) >= 3
    /\ pattern \in Suffixes(text)
    /\ \E n \in DOMAIN nodes : IsInternal(n)

\* -------------------------------------------------------------------- C2
\* C2: search(w) returns the boolean false for every byte string w that is
\* no substring of the effective text.
C2_AbsentNotFound ==
    /\ found \in BOOLEAN
    /\ (pc = "searched" /\ ~IsSubstring(pattern, text)) => found = FALSE

C2_Witness ==
    /\ pc = "searched" /\ ~found
    /\ Len(pattern) >= 3
    /\ ~IsSubstring(pattern, text)
    /\ IsSubstring(SubSeq(pattern, 1, Len(pattern) - 1), text)

\* -------------------------------------------------------------------- C3
\* C3: after extend(i) has returned, the strings readable from the root are
\* exactly the substrings of T[0..i].
C3_ImplicitTree ==
    AtPhaseBoundary => ReadFrom(Root) = Substrings(Processed)

C3_Witness ==
    /\ pc = "build" /\ i >= 3 /\ remainder >= 1
    /\ \E n \in DOMAIN nodes : IsInternal(n)

\* -------------------------------------------------------------------- C4
\* C4: at a phase boundary the suffix link of an internal non-root node whose
\* path spells a.alpha is the root or an internal node whose path spells
\* alpha, and the root links to itself.
C4_SuffixLinks ==
    AtPhaseBoundary =>
        /\ nodes[Root].suffixLink = Root
        /\ \A v \in DOMAIN nodes : IsInternal(v) =>
               LET u == nodes[v].suffixLink
               IN  /\ u = Root \/ IsInternal(u)
                   /\ NodePath(u) = Tail(NodePath(v))

C4_Witness ==
    /\ AtPhaseBoundary
    /\ \E v \in DOMAIN nodes :
           /\ IsInternal(v)
           /\ nodes[v].suffixLink # Root
           /\ IsInternal(nodes[nodes[v].suffixLink].suffixLink)

\* -------------------------------------------------------------------- C5
\* C5 as stated: the effective text ends in '$' and holds no other '$'.
C5_SentinelUnique ==
    /\ Last(text) = Dollar
    /\ DollarOnlyLast(text)

\* C5 amended: the effective text ends in '$'; it holds no other '$' exactly
\* when the input holds no '$' before its last byte.
C5_SentinelLast ==
    /\ Last(text) = Dollar
    /\ DollarOnlyLast(text) <=> DollarOnlyLast(input)

C5_Witness ==
    /\ Constructed
    /\ Len(input) >= 2
    /\ Last(input) = Dollar
    /\ DollarOnlyLast(input)
    /\ DollarOnlyLast(text)

\* -------------------------------------------------------------------- C6
\* C6: the effective text is the input when that is non-empty and ends in
\* '$', the input plus one '$' otherwise; size phases are run.
C6_EffectiveText ==
    /\ (Len(input) > 0 /\ Last(input) = Dollar)
          => (text = input /\ size = Len(input))
    /\ ~(Len(input) > 0 /\ Last(input) = Dollar)
          => /\ size = Len(input) + 1
             /\ Len(text) = size
             /\ SubSeq(text, 1, Len(input)) = input
             /\ text[size] = Dollar
    /\ Constructed => i = size

C6_Witness ==
    /\ Constructed
    /\ Len(input) >= 2
    /\ Last(input) = Dollar
    /\ text = input
    /\ i = Len(input)

\* -------------------------------------------------------------------- C7
\* C7 as stated: after construction there is one leaf per suffix.
C7_LeafPerSuffix ==
    Constructed => Cardinality(Leaves) = size

\* C7 amended: when '$' occurs only at the end of the effective text, the
\* leaves are as many as the suffixes and spell them; in any case the leaves
\* are the suffixes but the remainder shortest ones left implicit.
C7_LeafPerSuffixUniqueSentinel ==
    Constructed =>
        /\ Cardinality(Leaves) = size - remainder
        /\ DollarOnlyLast(text) =>
               /\ Cardinality(Leaves) = size
               /\ {NodePath(l) : l \in Leaves} = Suffixes(text)

C7_Witness ==
    /\ Constructed
    /\ DollarOnlyLast(text)
    /\ size >= 4
    /\ Cardinality(Leaves) = size
    /\ \E n \in DOMAIN nodes : IsInternal(n)

\* -------------------------------------------------------------------- C8
\* C8: at a phase boundary every root-to-leaf path spells a suffix of the
\* text processed so far and no two leaves spell the same one.
C8_LeafPaths ==
    AtPhaseBoundary =>
        /\ \A l \in Leaves : NodePath(l) \in Suffixes(Processed)
        /\ \A l, m \in Leaves : NodePath(l) = NodePath(m) => l = m

C8_Witness ==
    /\ pc = "build" /\ i >= 3 /\ remainder >= 1
    /\ Cardinality(Leaves) >= 3
    /\ \E n \in DOMAIN nodes : IsInternal(n)

\* -------------------------------------------------------------------- C9
\* C9 as stated: the node count after construction is at most 2N - 1.
C9_NodeBound ==
    Constructed => nodeCount <= 2 * size - 1

\* C9 amended: the node count is the number of nodes created; it is at most
\* 2N - 1 when N >= 2, and 2 when N = 1.
C9_NodeBoundFromTwo ==
    Constructed =>
        /\ nodeCount = Cardinality(DOMAIN nodes)
        /\ size >= 2 => nodeCount <= 2 * size - 1
        /\ size = 1 => nodeCount = 2

C9_Witness ==
    /\ Constructed
    /\ size >= 4
    /\ nodeCount = 2 * size - 1

\* ------------------------------------------------------------------- C10
\* C10: at a phase boundary every non-root node that has a child has at
\* least two, and their edges begin with different bytes.
C10_Branching ==
    AtPhaseBoundary =>
        \A v \in DOMAIN nodes : IsInternal(v) =>
            /\ Cardinality(Children(v)) >= 2
            /\ \A c, d \in Children(v) :
                   T(nodes[c].start) = T(nodes[d].start) => c = d

C10_Witness ==
    /\ AtPhaseBoundary
    /\ \E v \in DOMAIN nodes :
           IsInternal(v) /\ Cardinality(Children(v)) >= 3


\* ------------------------------------------------------------------- C11
\* C11: at a phase boundary every leaf's end is the shared global leaf end,
\* so after phase i every leaf edge ends at index i, and at N - 1 once the
\* constructor has returned.
C11_LeafEnds ==
    AtPhaseBoundary =>
        \A l \in Leaves :
            /\ nodes[l].end = "leafEnd"
            /\ Deref(l) = i - 1
            /\ Constructed => Deref(l) = size - 1

C11_Witness ==
    /\ pc = "build" /\ i >= 3
    /\ Cardinality(Leaves) >= 3
    /\ \A l \in Leaves : Deref(l) = i - 1

\* ------------------------------------------------------------------- C13
\* The plain scalar scan: the child at the first index whose key is c, and
\* "no such child" when no key is c.
FirstMatch(n, c) ==
    LET hits == {k \in 1..Len(n.keys) : n.keys[k] = c}
    IN  IF hits = {} THEN Null
        ELSE n.children[CHOOSE k \in hits : \A m \in hits : k <= m]

\* C13: for a node with any number of keys and any byte, findChild of the
\* 16-lane and of the 32-lane variant returns what the scalar scan returns.
C13_FindChildIsScalarScan ==
    find.pc \in {"neon", "avx"} =>
        find.result = FirstMatch(find.node, find.c)

C13_Witness ==
    /\ find.pc = "avx"
    /\ Len(find.node.keys) > 2 * AvxLanes
    /\ find.result >= AvxLanes /\ find.result < 2 * AvxLanes
    /\ Cardinality({k \in 1..Len(find.node.keys) :
                        find.node.keys[k] = find.c}) = 2
\* C12: the flat-array variants build the tree the ordered-map variant
\* builds (node for node: same edge label ranges, same suffix links, same
\* children under the same keys, same node count), and search answers the
\* same for every pattern.
ChildrenByKey(n) == [c \in DOMAIN nodes[n].children |-> nodes[n].children[c]]
ChildrenByKeyFlat(f, n) ==
    [c \in {f.nodes[n].keys[k] : k \in 1..Len(f.nodes[n].keys)} |->
        findChild(f, n, c)]
SameTree(f) ==
    /\ f.nodeCount = nodeCount
    /\ DOMAIN f.nodes = DOMAIN nodes
    /\ \A n \in DOMAIN nodes :
           /\ f.nodes[n].start = nodes[n].start
           /\ DerefFlat(f, n) = Deref(n)
           /\ f.nodes[n].suffixLink = nodes[n].suffixLink
           /\ Len(f.nodes[n].keys) = Cardinality(DOMAIN nodes[n].children)
           /\ Len(f.nodes[n].children) = Len(f.nodes[n].keys)
           /\ ChildrenByKeyFlat(f, n) = ChildrenByKey(n)
C12_FlatIsomorphic ==
    /\ flat.pc \in {"done", "searched"} => SameTree(flat)
    /\ flat.pc = "searched" => flat.found = found
C12_Witness ==
    /\ flat.pc = "searched"
    /\ flat.kind = "neon"
    /\ found
    /\ Len(pattern) >= 3
    /\ \E n \in DOMAIN flat.nodes \ {Root} : Len(flat.nodes[n].keys) >= 3
\* C14: search("") returns true on a tree built from any input text.
C14_EmptyPatternFound == pc = "searched" /\ pattern = <<>> => found
C14_Witness ==
    /\ pc = "searched"
    /\ pattern = <<>>
    /\ found
    /\ Len(input) = MaxLen
\* C15: from the empty input the effective text is "$" and the tree is the
\* root with exactly one child, a leaf labelled "$"; search("$") is true and
\* search("x") is false.
C15_EmptyInput ==
    input = <<>> =>
        /\ text = <<Dollar>>
        /\ pc \in {"done", "searched"} =>
               /\ DOMAIN nodes = {Root, 1}
               /\ nodeCount = 2
               /\ Children(Root) = {1}
               /\ DOMAIN nodes[Root].children = {Dollar}
               /\ IsLeaf(1)
               /\ Label(1) = <<Dollar>>
        /\ pc = "searched" /\ pattern = <<Dollar>> => found
        /\ pc = "searched" /\ pattern = <<120>> => ~found
C15_Witness ==
    /\ input = <<>>
    /\ pc = "searched"
    /\ pattern = <<120>>
    /\ ~found
    /\ Leaves = {1}
\* C16: for input "xabxa" the root has exactly the four children a, b, x, $;
\* the a-child is internal with label "a" and the two leaves "bxa$" and "$";
\* the x-child is internal with label "xa" and the two leaves "bxa$" and
\* "$"; the b-child is a leaf labelled "bxa$"; the $-child is a leaf.
ChildUnder(n, c) == nodes[n].children[c]
LeafLabels(n) == {Label(c) : c \in {d \in Children(n) : IsLeaf(d)}}
C16_XabxaShape ==
    input = Xabxa /\ Constructed =>
        /\ DOMAIN nodes[Root].children = {97, 98, 120, Dollar}
        /\ LET a == ChildUnder(Root, 97)
               b == ChildUnder(Root, 98)
               x == ChildUnder(Root, 120)
               d == ChildUnder(Root, Dollar)
           IN  /\ IsInternal(a) /\ Label(a) = <<97>>
               /\ Cardinality(Children(a)) = 2
               /\ LeafLabels(a) = {<<98, 120, 97, Dollar>>, <<Dollar>>}
               /\ IsInternal(x) /\ Label(x) = <<120, 97>>
               /\ Cardinality(Children(x)) = 2
               /\ LeafLabels(x) = {<<98, 120, 97, Dollar>>, <<Dollar>>}
               /\ IsLeaf(b) /\ Label(b) = <<98, 120, 97, Dollar>>
               /\ IsLeaf(d) /\ Label(d) = <<Dollar>>
C16_Witness ==
    /\ input = Xabxa
    /\ Constructed
    /\ nodeCount = 9
    /\ IsInternal(ChildUnder(Root, 120))
\* C18: a search call, whether it finds the pattern or not, leaves the text,
\* every node (start, end, the value its end refers to, suffix link, child
\* table and its keys), the node count and the builder state as they were,
\* in the ordered-map tree and in the flat-array tree.
FlatTreeState(f) == [f EXCEPT !.found = FALSE, !.pc = "done"]
C18_SearchReadOnly ==
    [][pc = "done" /\ pc' = "searched" =>
           /\ UNCHANGED <<text, size, nodes, heapInt, nodeCount, rootEnd,
                          leafEnd, activeNode, activeEdge, activeLength,
                          remainder, lastNewNode, i>>
           /\ FlatTreeState(flat') = FlatTreeState(flat)]_vars
C18_Witness ==
    /\ pc = "searched"
    /\ flat.pc = "searched"
    /\ ~found
    /\ Len(pattern) >= 3
    /\ IsSubstring(SubSeq(pattern, 1, Len(pattern) - 1), text)
\* C17: printTree writes the nodes in pre-order, each line indented by two
\* spaces per depth level, the children of every node in ascending order of
\* their first edge byte.
NodeLines == SelectSeq(out.lines, LAMBDA l : l.kind \in {"root", "edge"})
Pos(n) == CHOOSE k \in 1..Len(NodeLines) : NodeLines[k].id = n
RECURSIVE Depth(_)
Depth(n) == IF n = Root THEN 0 ELSE 1 + Depth(Parent(n))
RECURSIVE Subtree(_)
Subtree(n) == {n} \cup UNION {Subtree(c) : c \in Children(n)}
PrintedPreOrder ==
    /\ Len(NodeLines) = nodeCount
    /\ out.lines[1].kind = "header"
    /\ Last(out.lines).kind = "footer"
    /\ \A n \in DOMAIN nodes :
           /\ \E k \in 1..Len(NodeLines) : NodeLines[k].id = n
           /\ {NodeLines[k].id :
                   k \in Pos(n)..(Pos(n) + Cardinality(Subtree(n)) - 1)}
                  = Subtree(n)
           /\ NodeLines[Pos(n)].spaces = 2 * Depth(n)
           /\ n # Root => NodeLines[Pos(n)].label = Label(n)
SiblingsInOrder(Before(_, _)) ==
    \A n \in DOMAIN nodes :
        \A a, b \in DOMAIN nodes[n].children :
            Before(a, b) => Pos(ChildUnder(n, a)) < Pos(ChildUnder(n, b))
ByteBefore(a, b) == a < b
C17_PrintByteOrder ==
    pc = "printed" => PrintedPreOrder /\ SiblingsInOrder(ByteBefore)

\* C17, amended: the children come in ascending order of their first edge
\* byte taken as a char: where char is signed the bytes 128..255 come, in
\* ascending order, before the bytes 0..127.
CharBefore(a, b) ==
    IF out.charSigned /\ (a >= 128) # (b >= 128) THEN a >= 128 ELSE a < b
C17_PrintCharOrder ==
    pc = "printed" => PrintedPreOrder /\ SiblingsInOrder(CharBefore)
C17_Witness ==
    /\ pc = "printed"
    /\ input = HighBytes
    /\ out.charSigned
    /\ Pos(ChildUnder(Root, 200)) < Pos(ChildUnder(Root, Dollar))
    /\ Pos(ChildUnder(Root, 130)) < Pos(ChildUnder(Root, 200))
    /\ \E n \in DOMAIN nodes : Depth(n) = 2
\* C19: getText() returns the original text that was passed to the
\* constructor.
C19_GetTextOriginal == pc = "gotText" => got = input
\* C20: destruction is one post-order traversal: every node is deleted
\* exactly once and after all of its children, the split end of every
\* internal node exactly once and together with its node, the root end
\* exactly once, and the member leafEnd never; in the ordered-map tree and
\* in the flat-array tree.
Deletions(tr, kind, n) ==
    {k \in 1..Len(tr) : tr[k].kind = kind /\ tr[k].of = n}
TheDeletion(tr, kind, n) == CHOOSE k \in Deletions(tr, kind, n) : TRUE
FreedInPostOrder(tr, ids, Kids(_), End(_)) ==
    /\ \A n \in ids :
           /\ Cardinality(Deletions(tr, "node", n)) = 1
           /\ \A c \in Kids(n) :
                  TheDeletion(tr, "node", c) < TheDeletion(tr, "node", n)
           /\ IF End(n) = "splitEnd"
              THEN /\ Cardinality(Deletions(tr, "int", n)) = 1
                   /\ TheDeletion(tr, "int", n) + 1
                          = TheDeletion(tr, "node", n)
              ELSE Deletions(tr, "int", n) = {}
    /\ \A k \in 1..Len(tr) : tr[k].of \in ids \cup {Null}
    /\ Cardinality({k \in 1..Len(tr) : tr[k].ref = "rootEnd"}) = 1
    /\ Last(tr).ref = "rootEnd"
    /\ \A k \in 1..Len(tr) : tr[k].ref # "leafEnd"
    /\ tr[TheDeletion(tr, "node", Root) + 1] = Last(tr)
KidsFlat(n) ==
    {flat.nodes[n].children[k] : k \in 1..Len(flat.nodes[n].children)}
EndOf(n) == nodes[n].end
EndOfFlat(n) == flat.nodes[n].end
C20_PostOrderFree ==
    /\ pc = "destroyed" =>
           FreedInPostOrder(freed, DOMAIN nodes, Children, EndOf)
    /\ flat.pc = "destroyed" =>
           FreedInPostOrder(flat.freed, DOMAIN flat.nodes, KidsFlat, EndOfFlat)
C20_Witness ==
    /\ pc = "destroyed"
    /\ flat.pc = "destroyed"
    /\ nodeCount >= 9
    /\ Cardinality({k \in 1..Len(freed) : freed[k].ref = "splitEnd"}) >= 3
    /\ Len(flat.freed) = Len(freed)
\* C21: at every remainder-loop iteration boundary and afterwards, every
\* node ever allocated (ids 0 .. nodeCount - 1) and every split end is
\* reachable from the root through child references, each node but the root
\* has exactly one parent, and nodeCount is the number of reachable nodes.
InBuilder == pc \in {"build", "loop", "done"}
ParentLinks(n) ==
    UNION {{<<q, c>> : c \in {k \in DOMAIN nodes[q].children :
                                 ChildUnder(q, k) = n}} : q \in DOMAIN nodes}
C21_AllReachable ==
    InBuilder =>
        /\ DOMAIN nodes = 0..(nodeCount - 1)
        /\ Subtree(Root) = DOMAIN nodes
        /\ Cardinality(Subtree(Root)) = nodeCount
        /\ ParentLinks(Root) = {}
        /\ \A n \in DOMAIN nodes \ {Root} : Cardinality(ParentLinks(n)) = 1
        /\ DOMAIN heapInt = {n \in DOMAIN nodes : nodes[n].end = "splitEnd"}
        /\ DOMAIN heapInt \subseteq Subtree(Root)
C21_Witness ==
    /\ pc = "loop"
    /\ nodeCount >= 7
    /\ Cardinality(DOMAIN heapInt) >= 2
    /\ \E n \in DOMAIN heapInt : Parent(n) \in DOMAIN heapInt

\* C22: construction is linear in the text length N = size.  Insertions
\* (Rule 2, with or without a split) are at most one per phase begun plus
\* none owed, Rule 3 iterations at most one per phase, and walk-down
\* iterations are paid for by the depth of the active node and the insertions
\* made so far; so the remainder loop runs at most 3 * N times in all, and
\* the tree never has more than 2 * N nodes.
PhasesBegun == IF pc = "loop" THEN i + 1 ELSE i
TotalIterations ==
    iterations.insertion + iterations.rule3 + iterations.walkDown
C22_LinearConstruction ==
    InBuilder =>
        /\ iterations.insertion + remainder = PhasesBegun
        /\ iterations.rule3 <= PhasesBegun
        /\ iterations.walkDown <= Depth(activeNode) + iterations.insertion
        /\ Depth(activeNode) + iterations.insertion <= PhasesBegun
        /\ TotalIterations <= 3 * PhasesBegun
        /\ PhasesBegun <= size
        /\ nodeCount <= 1 + 2 * iterations.insertion
        /\ nodeCount <= 2 * size
C22_Witness ==
    /\ pc = "done" /\ size >= 6
    /\ iterations.walkDown >= 2 /\ iterations.rule3 >= 3
    /\ nodeCount >= 9

\* C23: while a phase runs (from the increment at the top of extend(i) on)
\* remainder is at least 1 and at most i + 1; when extend returns, and the
\* phase index has moved on to i, remainder is in 0..i, one more than the
\* index of the phase that returned at most; remainder is never negative.
C23_RemainderRange ==
    /\ remainder >= 0
    /\ pc = "loop" => remainder \in 1..(i + 1)
    /\ AtPhaseBoundary => remainder \in 0..i
C23_Witness ==
    /\ pc = "build" /\ i >= 4 /\ remainder = i - 1
    /\ iterations.rule3 = i - 1

\* C24: throughout construction activeLength >= 0 and activeNode is a node of
\* the tree; when activeLength > 0, activeEdge is an index in 0..pos, inside
\* the text; the value pos - remainder + 1 that an insertion made from the
\* root with activeLength > 0 assigns to activeEdge is in 0..pos; and every
\* index at which an iteration of extend reads the text is in 0..pos.
CurrentPos == IF pc = "loop" THEN i ELSE i - 1
Inserts ==
    \/ ~HasChild(activeNode, currentEdgeChar)
    \/ LET next == ChildUnder(activeNode, currentEdgeChar)
       IN  ~walkDownTaken(next) /\ ~rule3Matches(next)
ReadsInRange ==
    /\ EdgeIndex \in 0..i
    /\ HasChild(activeNode, currentEdgeChar) =>
           LET next == ChildUnder(activeNode, currentEdgeChar)
           IN  ~walkDownTaken(next) =>
                   /\ nodes[next].start + activeLength \in 0..i
                   /\ ~rule3Matches(next) => nextStartAfterSplit(next) \in 0..i
C24_ActivePointInRange ==
    InBuilder =>
        /\ activeLength >= 0
        /\ activeNode \in DOMAIN nodes
        /\ CurrentPos < size
        /\ activeLength > 0 => activeEdge \in 0..CurrentPos
        /\ pc = "loop" =>
               /\ ReadsInRange
               /\ (activeNode = Root /\ activeLength > 0 /\ Inserts) =>
                      i - (remainder - 1) + 1 \in 0..i
C24_Witness ==
    /\ pc = "loop" /\ activeNode = Root /\ activeLength >= 2 /\ Inserts
    /\ i - (remainder - 1) + 1 = i - 1

\* C25: at the head of every iteration of the remainder loop of phase pos the
\* active point spells T[pos-remainder+1 .. pos-1]: the string depth of
\* activeNode plus activeLength is remainder - 1, so at the root activeLength
\* is remainder - 1; and at a phase boundary that Rule 3 left with suffixes
\* still owed the string depth of activeNode plus activeLength is remainder.
StringDepth(n) == Len(NodePath(n))
ActivePointString ==
    NodePath(activeNode) \o [k \in 1..activeLength |-> T(activeEdge + k - 1)]
TextFromTo(a, b) == [k \in 1..(b - a + 1) |-> T(a + k - 1)]
C25_ActivePointDepth ==
    /\ pc = "loop" =>
          /\ StringDepth(activeNode) + activeLength = remainder - 1
          /\ ActivePointString = TextFromTo(i - remainder + 1, i - 1)
          /\ activeNode = Root => activeLength = remainder - 1
    /\ (AtPhaseBoundary /\ remainder > 0) =>
          /\ StringDepth(activeNode) + activeLength = remainder
          /\ ActivePointString = TextFromTo(i - remainder, i - 1)
C25_Witness ==
    /\ pc = "loop" /\ activeNode # Root /\ activeLength >= 1
    /\ lastNewNode # Null /\ remainder >= 3

\* C26: a node's suffixLink is assigned at most twice during construction,
\* by newNode and at most once more, and every assignment falls in the phase
\* that created the node, so a split node has its final link when that phase
\* ends; a leaf's link is assigned by newNode only.
C26_SuffixLinkWrites ==
    InBuilder =>
        /\ DOMAIN linkWrites = DOMAIN nodes
        /\ \A n \in DOMAIN nodes :
              /\ Len(linkWrites[n]) \in 1..2
              /\ \A k \in 1..Len(linkWrites[n]) :
                    /\ linkWrites[n][k] = linkWrites[n][1]
                    /\ linkWrites[n][k] <= CurrentPos
              /\ IsLeaf(n) => Len(linkWrites[n]) = 1
              /\ Len(linkWrites[n]) = 1 => nodes[n].suffixLink = Root
              /\ (AtPhaseBoundary /\ n # Root) => linkWrites[n][1] < i
C26_Witness ==
    /\ pc = "done"
    /\ \E n, m \in DOMAIN nodes \ {Root} :
          /\ IsInternal(n) /\ IsInternal(m)
          /\ Len(linkWrites[n]) = 2 /\ nodes[n].suffixLink = m
          /\ Len(linkWrites[m]) = 2 /\ nodes[m].suffixLink = Root
          /\ linkWrites[n][1] < size - 1

\* C27: an iteration that splits an edge changes no path string.  The new
\* node's label T[next.start .. next.start + activeLength - 1] followed by
\* the new label of next is the old label of next; no split end that exists
\* is modified; every node that exists keeps its path from the root; and
\* what is added is the split node, with exactly the children next, under
\* T[next.start] of its advanced start, and the new leaf [pos, leafEnd],
\* under T[pos], two different keys.  The flat-array tree splits the same
\* way.
IsSplitStep == pc = "loop" /\ nodeCount' = nodeCount + 2
SplitKeepsPaths ==
    \A next \in {ChildUnder(activeNode, currentEdgeChar)},
       split \in {nodeCount}, leaf \in {nodeCount + 1}, pos \in {i} :
        /\ Label(split)' =
               TextFromTo(nodes[next].start, nodes[next].start + activeLength - 1)
        /\ Label(split)' \o Label(next)' = Label(next)
        /\ Label(split)' # <<>> /\ Label(next)' # <<>>
        /\ \A n \in DOMAIN heapInt : heapInt'[n] = heapInt[n]
        /\ \A n \in DOMAIN nodes : NodePath(n)' = NodePath(n)
        /\ DOMAIN nodes' = DOMAIN nodes \cup {split, leaf}
        /\ split \notin DOMAIN nodes /\ leaf \notin DOMAIN nodes
        /\ ChildrenByKey(split)' =
               (T(nodes'[next].start) :> next) @@ (T(pos) :> leaf)
        /\ T(nodes'[next].start) # T(pos)
        /\ nodes'[leaf] = newNode(pos, "leafEnd")
        /\ Label(leaf)' = <<T(pos)>>
        /\ NodePath(split)' = NodePath(activeNode) \o Label(split)'
        /\ \A n \in DOMAIN nodes \ {activeNode} :
               nodes'[n].children = nodes[n].children
        /\ nodes'[activeNode].children =
               [nodes[activeNode].children EXCEPT ![currentEdgeChar] = split]
        /\ \A n \in DOMAIN nodes :
               /\ nodes'[n].end = nodes[n].end
               /\ n # next => nodes'[n].start = nodes[n].start
KidsOf(f, n) == {f.nodes[n].children[k] : k \in 1..Len(f.nodes[n].children)}
ParentFlat(f, n) == CHOOSE q \in DOMAIN f.nodes : n \in KidsOf(f, q)
LabelFlat(f, n) ==
    IF n = Root THEN <<>>
    ELSE SubSeq(f.text, f.nodes[n].start + 1, DerefFlat(f, n) + 1)
RECURSIVE NodePathFlat(_, _)
NodePathFlat(f, n) ==
    IF n = Root THEN <<>>
    ELSE NodePathFlat(f, ParentFlat(f, n)) \o LabelFlat(f, n)
IsSplitStepFlat ==
    flat.pc = "loop" /\ flat'.nodeCount = flat.nodeCount + 2
SplitKeepsPathsFlat ==
    LET f == flat
        g == flat'
        next == nextFlat(f)
        split == f.nodeCount
        leaf == f.nodeCount + 1
        hit == CHOOSE k \in 1..Len(f.nodes[f.activeNode].keys) :
                   f.nodes[f.activeNode].children[k] = next
    IN  /\ LabelFlat(g, split) \o LabelFlat(g, next) = LabelFlat(f, next)
        /\ g.heapInt[split] = f.nodes[next].start + f.activeLength - 1
        /\ g.nodes[split].start = f.nodes[next].start
        /\ LabelFlat(g, split) # <<>> /\ LabelFlat(g, next) # <<>>
        /\ \A n \in DOMAIN f.heapInt : g.heapInt[n] = f.heapInt[n]
        /\ g.text = f.text /\ g.leafEnd = f.leafEnd
        /\ \A n \in DOMAIN f.nodes : NodePathFlat(g, n) = NodePathFlat(f, n)
        /\ DOMAIN g.nodes = DOMAIN f.nodes \cup {split, leaf}
        /\ split \notin DOMAIN f.nodes /\ leaf \notin DOMAIN f.nodes
        /\ g.nodes[split].keys =
               <<toByte(TextFlat(f, g.nodes[next].start)),
                 toByte(TextFlat(f, f.i))>>
        /\ g.nodes[split].children = <<next, leaf>>
        /\ g.nodes[split].keys[1] # g.nodes[split].keys[2]
        /\ g.nodes[leaf] = newNodeFlat(f.i, "leafEnd")
        /\ \A n \in DOMAIN f.nodes :
               /\ g.nodes[n].keys = f.nodes[n].keys
               /\ g.nodes[n].end = f.nodes[n].end
               /\ n # next => g.nodes[n].start = f.nodes[n].start
               /\ n # f.activeNode =>
                      g.nodes[n].children = f.nodes[n].children
        /\ g.nodes[f.activeNode].children =
               [f.nodes[f.activeNode].children EXCEPT ![hit] = split]
SplitEndsKept ==
    /\ \A n \in DOMAIN heapInt \cap DOMAIN heapInt' : heapInt'[n] = heapInt[n]
    /\ (flat.pc = "loop" /\ flat'.pc \in {"build", "loop", "done"}) =>
           \A n \in DOMAIN flat.heapInt : flat'.heapInt[n] = flat.heapInt[n]
C27_SplitKeepsPaths ==
    [][/\ IsSplitStep => SplitKeepsPaths
       /\ IsSplitStepFlat => SplitKeepsPathsFlat
       /\ SplitEndsKept]_vars
C27_Witness ==
    /\ pc = "done"
    /\ \E n \in DOMAIN heapInt : Parent(n) # Root /\ IsInternal(n)
    /\ flat.pc = "loop" /\ flat.kind = "avx"
    /\ flat.lastNewNode # Null
    /\ ParentFlat(flat, flat.lastNewNode) # Root
    /\ Cardinality(KidsOf(flat, flat.lastNewNode)) = 2

\* C28: an iteration in which Rule 3 fires ends the phase at once: the
\* branch adds exactly 1 to activeLength, leaves remainder as it is (at least
\* 1 at the phase boundary), leaves activeNode and activeEdge as they are
\* when it fires (activeEdge is what the head of the iteration made it: pos
\* when activeLength was 0, untouched otherwise), and creates and re-labels
\* no node; a phase that ends in an iteration without Rule 3 ends with
\* remainder = 0.
Rule3Fires ==
    /\ pc = "loop"
    /\ HasChild(activeNode, currentEdgeChar)
    /\ LET next == ChildUnder(activeNode, currentEdgeChar)
       IN  ~walkDownTaken(next) /\ rule3Matches(next)
Shape(n) == [start |-> nodes[n].start, end |-> nodes[n].end,
             children |-> nodes[n].children]
Rule3EndsPhase ==
    /\ pc' \in {"build", "done"} /\ i' = i + 1
    /\ activeLength' = activeLength + 1
    /\ remainder' = remainder /\ remainder' >= 1
    /\ activeNode' = activeNode
    /\ activeEdge' = EdgeIndex
    /\ activeLength > 0 => activeEdge' = activeEdge
    /\ nodeCount' = nodeCount /\ DOMAIN nodes' = DOMAIN nodes
    /\ \A n \in DOMAIN nodes : Shape(n)' = Shape(n)
    /\ UNCHANGED <<heapInt, leafEnd, rootEnd, text, size>>
WalkDownFires ==
    /\ pc = "loop"
    /\ HasChild(activeNode, currentEdgeChar)
    /\ activeLength >= edgeLength(ChildUnder(activeNode, currentEdgeChar))
WalkDownMoves ==
    \A next \in {ChildUnder(activeNode, currentEdgeChar)} :
        /\ pc' = "loop" /\ i' = i
        /\ UNCHANGED <<remainder, leafEnd, lastNewNode, nodes, heapInt,
                       nodeCount, rootEnd, text, size>>
        /\ activeNode' = next
        /\ activeEdge' = activeEdge + edgeLength(next)
        /\ activeLength' = activeLength - edgeLength(next)
        /\ activeLength' >= 0
        /\ StringDepth(activeNode)' + activeLength' =
               StringDepth(activeNode) + activeLength
        /\ ActivePointString' = ActivePointString
        /\ iterations'.walkDown = iterations.walkDown + 1
IsExtendBegin == pc = "build" /\ pc' = "loop"
LeafEndIsPos == InBuilder => leafEnd = CurrentPos
C30_LeafEndOncePerPhase ==
    [][/\ LeafEndIsPos /\ LeafEndIsPos'
       /\ (pc = "build" /\ i = 0) => leafEnd = -1
       /\ IsExtendBegin => (leafEnd = i - 1 /\ leafEnd' = i /\ i' = i)
       /\ leafEnd' # leafEnd => IsExtendBegin
       /\ (pc = "loop" /\ pc' = "loop") => (i' = i /\ leafEnd' = leafEnd)
       /\ pc \notin {"build", "loop"} => leafEnd' = leafEnd]_vars
C30_Witness ==
    /\ pc = "searched" /\ found /\ Len(pattern) = MaxPat
    /\ leafEnd = size - 1 /\ leafEnd >= 5
    /\ \E n \in Leaves : nodes[n].start = 0 /\ Len(Label(n)) = size

\* C31: every call extend(pos) returns and the constructor finishes after
\* the phases 0, 1, ..., size - 1, run in this order.  Each iteration of the
\* remainder loop either walks down to a strictly deeper node with a smaller
\* activeLength, or decrements remainder, or leaves the loop.
LoopProgress ==
    pc = "loop" =>
        \/ /\ pc' = "loop" /\ remainder' = remainder
           /\ Depth(activeNode)' > Depth(activeNode)
           /\ activeLength' < activeLength /\ activeLength' >= 0
        \/ /\ pc' = "loop" /\ remainder' = remainder - 1 /\ remainder' > 0
        \/ pc' # "loop"
PhasesInOrder ==
    /\ IsExtendBegin => (i' = i /\ i < size)
    /\ (pc = "loop" /\ pc' = "loop") => i' = i
    /\ (pc = "loop" /\ pc' # "loop") =>
           /\ i' = i + 1
           /\ pc' = IF i' < size THEN "build" ELSE "done"
    /\ pc = "done" => UNCHANGED <<i, pc>>
C31_Terminates ==
    /\ (pc = "loop") ~> (pc # "loop")
    /\ <>(pc = "done" /\ i = size)
    /\ [][LoopProgress /\ PhasesInOrder]_vars
C31_Witness ==
    /\ pc = "done" /\ i = size /\ size >= 6
    /\ TotalIterations >= 12 /\ iterations.walkDown >= 1

\* C32: at every iteration boundary of the remainder loop, in the
\* ordered-map tree and in the flat-array trees, every child c stored under
\* key k of a node has k = T[c.start], every non-root edge label is
\* non-empty (c.start <= *c.end), and the keys of one node are pairwise
\* distinct: no two children of a node share a first byte, and no byte is
\* twice in a flat node's keys.
DispatcherKeysMap ==
    \A n \in DOMAIN nodes :
        /\ n # Root => nodes[n].start <= Deref(n)
        /\ \A k \in DOMAIN nodes[n].children :
               /\ ChildUnder(n, k) \in DOMAIN nodes \ {Root}
               /\ k = T(nodes[ChildUnder(n, k)].start)
        /\ \A k, m \in DOMAIN nodes[n].children :
               ChildUnder(n, k) = ChildUnder(n, m) => k = m
DispatcherKeysFlat(f) ==
    \A n \in DOMAIN f.nodes :
        /\ n # Root => f.nodes[n].start <= DerefFlat(f, n)
        /\ Len(f.nodes[n].children) = Len(f.nodes[n].keys)
        /\ \A k \in 1..Len(f.nodes[n].keys) :
               /\ f.nodes[n].children[k] \in DOMAIN f.nodes \ {Root}
               /\ f.nodes[n].keys[k] =
                      toByte(TextFlat(f, f.nodes[f.nodes[n].children[k]].start))
        /\ \A k, m \in 1..Len(f.nodes[n].keys) :
               f.nodes[n].keys[k] = f.nodes[n].keys[m] => k = m
C32_DispatcherKeys ==
    /\ InBuilder => DispatcherKeysMap
    /\ flat.pc \in {"build", "loop", "done"} => DispatcherKeysFlat(flat)
C32_Witness ==
    /\ pc = "done" /\ flat.pc = "loop" /\ flat.kind = "neon"
    /\ flat.lastNewNode # Null
    /\ Len(flat.nodes[Root].keys) >= 3
    /\ \E k \in DOMAIN nodes[Root].children : k >= 128

\* C33: the active node is never a leaf.  A walk-down never enters a node
\* whose end is the global leaf end; a node whose end is the global leaf end
\* has no children and no suffix link points at it; and a non-root node has
\* children if and only if its end is a split end.
HasLeafEnd(n) == nodes[n].end = "leafEnd"
C33_ActiveNodeNotLeaf ==
    InBuilder =>
        /\ ~HasLeafEnd(activeNode)
        /\ activeNode # Root => Children(activeNode) # {}
        /\ WalkDownFires =>
               ~HasLeafEnd(ChildUnder(activeNode, currentEdgeChar))
        /\ nodes[Root].end = "rootEnd"
        /\ lastNewNode # Null => nodes[lastNewNode].end = "splitEnd"
        /\ \A n \in DOMAIN nodes :
               /\ HasLeafEnd(n) => nodes[n].children = <<>>
               /\ ~HasLeafEnd(nodes[n].suffixLink)
               /\ n # Root =>
                      (Children(n) # {} <=> nodes[n].end = "splitEnd")
               /\ n # Root => nodes[n].end \in {"leafEnd", "splitEnd"}
C33_Witness ==
    /\ pc = "loop" /\ iterations.walkDown >= 1 /\ activeNode # Root
    /\ nodes[activeNode].suffixLink # Root
    /\ \E c \in Children(activeNode) : IsLeaf(c)

\* C34: when the effective text ends in a '$' that occurs nowhere else in it,
\* the constructor finishes with remainder = 0, activeNode = root and
\* activeLength = 0: the last phase leaves no suffix implicit.
UniqueSentinel ==
    /\ text # <<>> /\ text[Len(text)] = Dollar
    /\ DollarOnlyLast(text)
C34_NothingOwedAtEnd ==
    (pc = "done" /\ UniqueSentinel) =>
        /\ remainder = 0
        /\ activeNode = Root
        /\ activeLength = 0
        /\ Cardinality(Leaves) = size
        /\ iterations.insertion = size
C34_Witness ==
    /\ pc = "done" /\ UniqueSentinel /\ size >= 7
    /\ remainder = 0 /\ activeNode = Root /\ activeLength = 0
    /\ iterations.rule3 >= 4 /\ Cardinality(DOMAIN heapInt) >= 3
====
